---- MODULE Spec2Model ----
(***************************************************************************)
(* State-machine model of the capcom driver (src/src/capcom/src/lib.rs):   *)
(* the load/unload lifecycle, the OPEN/CLOSE/DEVICE_CONTROL dispatch       *)
(* routines and the SMEP-free payload window, on two execution units.      *)
(***************************************************************************)
EXTENDS Integers, Sequences, FiniteSets, TLC

(* ------------------------------ bounds -------------------------------- *)

\* Total number of requests the I/O manager dispatches in one behaviour.
MaxRequests == 2

\* The execution units (logical processors) that run dispatch routines.
Units == {1, 2}

(* ------------------------- program constants -------------------------- *)

DEVICE_NAME == "\\Device\\Htsysm72FB"
LINK_NAME == "\\DosDevices\\Htsysm72FB"

\* Number of UTF-16 code units of the two names ([u16; 18], [u16; 22]).
DEVICE_NAME_LEN == 18
LINK_NAME_LEN == 22

\* 0xaa01
DEVICE_TYPE == 43521

\* A ULONG control code is kept as its two 16-bit halves <<high, low>>:
\* (high << 16) | low with high, low < 2^16.
CtlCode(high, low) == <<high, low>>

\* (DEVICE_TYPE << 16) | 0x3044
IOCTL_RUN_PAYLOAD == CtlCode(DEVICE_TYPE, 12356)

\* 1 << 20
CR4_SMEP == 1048576

\* 0x0000_00e2
MANUALLY_INITIATED_CRASH == 226

STATUS_SUCCESS == 0

\* Statuses the kernel routines can hand back besides STATUS_SUCCESS
\* (0xC000009A and 0xC0000035 as signed 32-bit NTSTATUS values).
STATUS_INSUFFICIENT_RESOURCES == 0 - 1073741670
STATUS_OBJECT_NAME_COLLISION == 0 - 1073741771
\* IoStatus.Status of a freshly built IRP (0xC00000BB).
STATUS_NOT_SUPPORTED == 0 - 1073741637

NT_SUCCESS(status) == status >= 0

IRP_MJ_CREATE == "IRP_MJ_CREATE"
IRP_MJ_CLOSE == "IRP_MJ_CLOSE"
IRP_MJ_DEVICE_CONTROL == "IRP_MJ_DEVICE_CONTROL"
MajorCodes == {IRP_MJ_CREATE, IRP_MJ_CLOSE, IRP_MJ_DEVICE_CONTROL}

MmGetSystemRoutineAddress == "MmGetSystemRoutineAddress"

(* --------------------------- pure helpers ----------------------------- *)

\* value & bit != 0, for a single-bit mask
HasBit(value, bit) == (value \div bit) % 2 = 1

\* value & !bit
AndNot(value, bit) == IF HasBit(value, bit) THEN value - bit ELSE value

\* value | bit
OrBit(value, bit) == IF HasBit(value, bit) THEN value ELSE value + bit

\* Builds UNICODE_STRING with the UTF-16 string.
RTL_CONSTANT_STRING(utf16, len) ==
    [Length |-> len * 2, MaximumLength |-> len * 2, Buffer |-> utf16]

(* ------------------------------ state --------------------------------- *)

VARIABLES
    lpc,            \* position of the load/unload thread
    driver,         \* the DRIVER_OBJECT: DriverUnload, MajorFunction, DeviceObject
    devices,        \* names of the device objects in the object namespace
    symlinks,       \* symbolic links in the object namespace: name -> target
    dbglog,         \* lines written with wdk::println!
    entryStatus,    \* the statuses driver_entry returned (<<>> until it returns)
    debugger,       \* TRUE when a kernel debugger is attached
    faultyCallers,  \* TRUE when callers may pass an IRP with a bad stack location
    breaks,         \* number of int3 instructions executed
    bugCheckCode,   \* the stop codes KeBugCheck halted the system with (<<>>: running)
    apiFailed,      \* the kernel routines that have returned a failure status
    sharedCr4,      \* TRUE when the units see one protection register
    bootCr4,        \* the CR4 value the system booted with
    cr4,            \* the CR4 register(s)
    intf,           \* the interrupt-enable flag of each unit
    pc,             \* position of each unit inside a dispatch routine
    irp,            \* the request each unit is handling (or handled last)
    control_code,   \* driver_ioctl's local control_code
    saved,          \* run_payload's local cr4
    req,            \* per request: what held at dispatch and what happened since
    nreq,           \* requests dispatched so far
    payloadRuns,    \* payload invocations so far, over all requests
    recognizedDone  \* recognized device-control requests that have returned

lifecycleVars == <<lpc, driver, devices, symlinks, dbglog, entryStatus, breaks,
                   bugCheckCode, apiFailed>>
envVars == <<debugger, faultyCallers, sharedCr4, bootCr4>>
unitVars == <<cr4, intf, pc, irp, control_code, saved, req, nreq, payloadRuns,
              recognizedDone>>
vars == <<lifecycleVars, envVars, unitVars>>

(* --------------------------- environment ------------------------------ *)

\* CR4.SMAP, the bit next to CR4.SMEP: a second bit for the whole-register checks.
CR4_SMAP == 2 * CR4_SMEP

\* CR4.PAE, which is set whenever the processor runs in long mode.
CR4_PAE == 2 ^ 5

\* CR4 values the system can have booted with: SMEP on, or SMEP off (an older
\* processor) with another bit on.
Cr4BootValues == {CR4_PAE + CR4_SMEP, CR4_PAE + CR4_SMAP}

\* Statuses IoCreateDevice, IoCreateSymbolicLink and IoDeleteSymbolicLink return.
ApiStatuses == {STATUS_SUCCESS, STATUS_INSUFFICIENT_RESOURCES,
                STATUS_OBJECT_NAME_COLLISION}

\* What a payload does once it runs: to CR4, to the interrupt flag, and whether
\* it ever returns. The driver cannot tell before it calls the pointer.
Payloads ==
    {b \in [cr4op : {"none", "set_smep", "clear_smep", "flip_smap"},
            ifop : {"none", "sti", "cli"},
            returns : BOOLEAN] :
        /\ b.cr4op = "none" \/ b.ifop = "none"
        /\ ~b.returns => b.cr4op = "none" /\ b.ifop = "none"}

\* Control codes a caller sends: the recognized one, and codes that differ from
\* it in the low half or in the high half.
ControlCodes == {IOCTL_RUN_PAYLOAD, CtlCode(DEVICE_TYPE, 12352),
                 CtlCode(34, 12356)}

\* IoStatus.Information of a request when it is dispatched: a byte count left
\* in the status block, so that a store of 0 is a visible change.
InformationValues == {8}

\* The CurrentLocation values of the requests handed to the driver, for one
\* stack location (StackCount = 1): 1 from the I/O manager; a faulty caller may
\* also hand down 3, which is past StackCount + 1.
StackLocations == IF faultyCallers THEN {1, 3} ELSE {1}

NoPayload == [cr4op |-> "none", ifop |-> "none", returns |-> TRUE]
NoIrp == [Major |-> "none", IoControlCode |-> CtlCode(0, 0),
          SystemBuffer |-> "NULL", Status |-> STATUS_NOT_SUPPORTED,
          Information |-> 0, Completed |-> 0, CurrentLocation |-> 1,
          StackCount |-> 1]
NoReq == [cr4 |-> 0, intf |-> TRUE, information |-> 0, invoked |-> 0,
          resolver |-> "none", payload |-> NoPayload, bufferRead |-> FALSE,
          ret |-> <<>>,
          statusAtCompletion |-> <<>>, trace |-> <<>>]

NoHandlers == [m \in MajorCodes |-> "none"]

\* The register a unit's mov-to/from-cr4 reaches.
Reg(u) == IF sharedCr4 THEN 1 ELSE u

Running == bugCheckCode = <<>>

Init ==
    /\ lpc = "start"
    /\ driver = [DriverUnload |-> "none", MajorFunction |-> NoHandlers,
                 DeviceObject |-> "NULL"]
    /\ devices = {}
    /\ symlinks = {}
    /\ dbglog = <<>>
    /\ entryStatus = <<>>
    /\ debugger \in BOOLEAN
    /\ faultyCallers \in BOOLEAN
    /\ breaks = 0
    /\ bugCheckCode = <<>>
    /\ sharedCr4 \in BOOLEAN
    /\ apiFailed = {}
    /\ bootCr4 \in Cr4BootValues
    /\ cr4 = [u \in Units |-> bootCr4]
    /\ intf = [u \in Units |-> TRUE]
    /\ pc = [u \in Units |-> "idle"]
    /\ irp = [u \in Units |-> NoIrp]
    /\ control_code = [u \in Units |-> CtlCode(0, 0)]
    /\ saved = [u \in Units |-> 0]
    /\ req = [u \in Units |-> NoReq]
    /\ nreq = 0
    /\ payloadRuns = 0
    /\ recognizedDone = 0

(* ----------------------------- lifecycle ------------------------------ *)

\* The record of a kernel routine's returned status.
Failed(routine, status) ==
    IF NT_SUCCESS(status) THEN apiFailed ELSE apiFailed \cup {routine}

\* Variant: the assertion is compiled out and execution goes on regardless.
AssertedIgnored(condition) == TRUE

\* assert!(condition): execution goes on only when the condition holds.
Asserted(condition) == condition

\* KdRefreshDebuggerNotPresent(): refreshes and returns KD_DEBUGGER_NOT_PRESENT,
\* nonzero (TRUE) when no kernel debugger is attached, 0 when one is.
KdRefreshDebuggerNotPresent == IF debugger THEN 0 ELSE 1

\* Variant: the break is taken when the routine reports no debugger.
DebuggerCheckInverted == KdRefreshDebuggerNotPresent # 0

\* if KdRefreshDebuggerNotPresent() == 0
DebuggerCheck == KdRefreshDebuggerNotPresent = 0

\* driver_entry: break into a kernel debugger if present.
EntryDebugBreak ==
    /\ Running /\ lpc = "start"
    /\ breaks' = IF DebuggerCheck THEN breaks + 1 ELSE breaks
    /\ lpc' = "create_device"
    /\ UNCHANGED <<driver, devices, symlinks, dbglog, entryStatus, bugCheckCode,
                   apiFailed, envVars, unitVars>>

\* IoCreateDevice(...) and assert!(NT_SUCCESS(status)).
EntryCreateDevice ==
    /\ Running /\ lpc = "create_device"
    /\ \E status \in ApiStatuses :
        LET device_name == RTL_CONSTANT_STRING(DEVICE_NAME, DEVICE_NAME_LEN) IN
        /\ devices' = IF NT_SUCCESS(status)
                      THEN devices \cup {device_name.Buffer} ELSE devices
        /\ driver' = IF NT_SUCCESS(status)
                     THEN [driver EXCEPT !.DeviceObject = device_name.Buffer]
                     ELSE driver
        /\ apiFailed' = Failed("IoCreateDevice", status)
        /\ lpc' = IF Asserted(NT_SUCCESS(status)) THEN "create_link" ELSE "panic"
    /\ UNCHANGED <<symlinks, dbglog, entryStatus, breaks, bugCheckCode, envVars,
                   unitVars>>

\* IoCreateSymbolicLink(link_name, device_name) and assert!(NT_SUCCESS(status)).
EntryCreateLink ==
    /\ Running /\ lpc = "create_link"
    /\ \E status \in ApiStatuses :
        LET device_name == RTL_CONSTANT_STRING(DEVICE_NAME, DEVICE_NAME_LEN)
            link_name == RTL_CONSTANT_STRING(LINK_NAME, LINK_NAME_LEN) IN
        /\ symlinks' = IF NT_SUCCESS(status)
                       THEN symlinks \cup {[name |-> link_name.Buffer,
                                            target |-> device_name.Buffer]}
                       ELSE symlinks
        /\ apiFailed' = Failed("IoCreateSymbolicLink", status)
        /\ lpc' = IF Asserted(NT_SUCCESS(status)) THEN "register" ELSE "panic"
    /\ UNCHANGED <<driver, devices, dbglog, entryStatus, breaks, bugCheckCode,
                   envVars, unitVars>>

\* The tail of driver_entry: the unload routine, the three dispatch routines,
\* the log line and the returned status.
EntryRegister ==
    /\ Running /\ lpc = "register"
    /\ driver' = [driver EXCEPT
                    !.DriverUnload = "driver_unload",
                    !.MajorFunction = [m \in MajorCodes |->
                        IF m = IRP_MJ_DEVICE_CONTROL THEN "driver_ioctl"
                        ELSE "driver_open_close"]]
    /\ dbglog' = Append(dbglog, "Loaded the driver successfully")
    /\ entryStatus' = Append(entryStatus, STATUS_SUCCESS)
    /\ lpc' = "loaded"
    /\ UNCHANGED <<devices, symlinks, breaks, bugCheckCode, apiFailed, envVars,
                   unitVars>>

\* The threads that can panic: the one running driver_entry (thread 0), and
\* the units.
Threads == {0} \cup Units

At(t, stage) == IF t = 0 THEN lpc = stage ELSE pc[t] = stage

Goto(t, stage) ==
    /\ lpc' = IF t = 0 THEN stage ELSE lpc
    /\ pc' = IF t = 0 THEN pc ELSE [pc EXCEPT ![t] = stage]

\* Variant: handle_panic goes on without writing the fault information.
PanicLogSkipped(t) ==
    /\ Running /\ At(t, "panic")
    /\ Goto(t, "panic_break")
    /\ UNCHANGED <<driver, devices, symlinks, dbglog, entryStatus, breaks,
                   bugCheckCode, apiFailed, envVars, cr4, intf, irp, control_code,
                   saved, req, nreq, payloadRuns, recognizedDone>>

\* handle_panic: wdk::println!("{info}").
PanicLog(t) ==
    /\ Running /\ At(t, "panic")
    /\ dbglog' = Append(dbglog, "panicked")
    /\ Goto(t, "panic_break")
    /\ UNCHANGED <<driver, devices, symlinks, entryStatus, breaks, bugCheckCode,
                   apiFailed, envVars, cr4, intf, irp, control_code, saved, req, nreq,
                   payloadRuns, recognizedDone>>

\* handle_panic: break into a kernel debugger if present.
PanicDebugBreak(t) ==
    /\ Running /\ At(t, "panic_break")
    /\ breaks' = IF DebuggerCheck THEN breaks + 1 ELSE breaks
    /\ Goto(t, "panic_bugcheck")
    /\ UNCHANGED <<driver, devices, symlinks, dbglog, entryStatus, bugCheckCode,
                   apiFailed, envVars, cr4, intf, irp, control_code, saved, req, nreq,
                   payloadRuns, recognizedDone>>

\* handle_panic: KeBugCheck(MANUALLY_INITIATED_CRASH); the system halts.
PanicBugCheck(t) ==
    /\ Running /\ At(t, "panic_bugcheck")
    /\ bugCheckCode' = Append(bugCheckCode, MANUALLY_INITIATED_CRASH)
    /\ Goto(t, "halted")
    /\ UNCHANGED <<driver, devices, symlinks, dbglog, entryStatus, breaks,
                   apiFailed, envVars, cr4, intf, irp, control_code, saved, req, nreq,
                   payloadRuns, recognizedDone>>

\* IoDeleteSymbolicLink(link_name): a failure leaves the link in place.
DeleteSymbolicLink(links, name, status) ==
    IF NT_SUCCESS(status) THEN {l \in links : l.name # name} ELSE links

\* driver_unload, first call: let _ = IoDeleteSymbolicLink(&raw mut link_name).
\* The I/O manager calls the unload routine once, with no request in flight.
UnloadDeleteLink ==
    /\ Running /\ lpc = "loaded"
    /\ driver.DriverUnload = "driver_unload"
    /\ \A u \in Units : pc[u] = "idle"
    /\ \E status \in ApiStatuses :
        LET link_name == RTL_CONSTANT_STRING(LINK_NAME, LINK_NAME_LEN) IN
        /\ symlinks' = DeleteSymbolicLink(symlinks, link_name.Buffer, status)
        /\ apiFailed' = Failed("IoDeleteSymbolicLink", status)
    /\ lpc' = "unload_device"
    /\ UNCHANGED <<driver, devices, dbglog, entryStatus, breaks, bugCheckCode,
                   envVars, unitVars>>

\* driver_unload, second call: IoDeleteDevice((*driver).DeviceObject).
UnloadDeleteDevice ==
    /\ Running /\ lpc = "unload_device"
    /\ devices' = devices \ {driver.DeviceObject}
    /\ driver' = [driver EXCEPT !.DeviceObject = "NULL"]
    /\ lpc' = "unloaded"
    /\ UNCHANGED <<symlinks, dbglog, entryStatus, breaks, bugCheckCode, apiFailed,
                   envVars, unitVars>>

(* ------------------------- request dispatch --------------------------- *)

\* The I/O manager hands a request to the routine registered for its major
\* code, on a unit that is not already inside a dispatch routine.
Dispatch(u) ==
    /\ Running /\ lpc = "loaded" /\ pc[u] = "idle" /\ nreq < MaxRequests
    /\ \E major \in MajorCodes, code \in ControlCodes \cup {CtlCode(0, 0)},
          info \in InformationValues, location \in StackLocations :
        /\ driver.MajorFunction[major] # "none"
        /\ (major = IRP_MJ_DEVICE_CONTROL) = (code \in ControlCodes)
        /\ irp' = [irp EXCEPT ![u] =
                     [Major |-> major, IoControlCode |-> code,
                      SystemBuffer |->
                          IF major = IRP_MJ_DEVICE_CONTROL THEN "payload"
                          ELSE "NULL",
                      Status |-> STATUS_NOT_SUPPORTED,
                      Information |-> info, Completed |-> 0,
                      CurrentLocation |-> location, StackCount |-> 1]]
        /\ req' = [req EXCEPT ![u] =
                     [NoReq EXCEPT !.cr4 = cr4[Reg(u)], !.intf = intf[u],
                                   !.information = info]]
        /\ pc' = [pc EXCEPT ![u] =
                     IF driver.MajorFunction[major] = "driver_ioctl"
                     THEN "io_stack" ELSE "oc_status"]
    /\ nreq' = nreq + 1
    /\ UNCHANGED <<lifecycleVars, envVars, cr4, intf, control_code, saved,
                   payloadRuns, recognizedDone>>

\* IofCompleteRequest(irp, IO_NO_INCREMENT): the request goes back to the I/O
\* manager, which sees the status block as it is at that moment.
IofCompleteRequest(u) ==
    /\ irp' = [irp EXCEPT ![u].Completed = @ + 1]
    /\ req' = [req EXCEPT ![u].statusAtCompletion = Append(@, irp[u].Status)]

(* ------------------------- driver_open_close -------------------------- *)

\* Variant: the status is stored and the byte count is left as it came.
OpenCloseStatusOnly(u) ==
    /\ Running /\ pc[u] = "oc_status"
    /\ irp' = [irp EXCEPT ![u].Status = STATUS_SUCCESS]
    /\ pc' = [pc EXCEPT ![u] = "oc_complete"]
    /\ UNCHANGED <<lifecycleVars, envVars, cr4, intf, control_code, saved, req,
                   nreq, payloadRuns, recognizedDone>>

\* (*irp).IoStatus.Status = STATUS_SUCCESS; (*irp).IoStatus.Information = 0
OpenCloseSetStatus(u) ==
    /\ Running /\ pc[u] = "oc_status"
    /\ irp' = [irp EXCEPT ![u].Status = STATUS_SUCCESS, ![u].Information = 0]
    /\ pc' = [pc EXCEPT ![u] = "oc_complete"]
    /\ UNCHANGED <<lifecycleVars, envVars, cr4, intf, control_code, saved, req,
                   nreq, payloadRuns, recognizedDone>>

OpenCloseComplete(u) ==
    /\ Running /\ pc[u] = "oc_complete"
    /\ IofCompleteRequest(u)
    /\ pc' = [pc EXCEPT ![u] = "oc_return"]
    /\ UNCHANGED <<lifecycleVars, envVars, cr4, intf, control_code, saved, nreq,
                   payloadRuns, recognizedDone>>

\* driver_open_close returns STATUS_SUCCESS.
OpenCloseReturn(u) ==
    /\ Running /\ pc[u] = "oc_return"
    /\ req' = [req EXCEPT ![u].ret = Append(@, STATUS_SUCCESS)]
    /\ pc' = [pc EXCEPT ![u] = "returned"]
    /\ UNCHANGED <<lifecycleVars, envVars, cr4, intf, irp, control_code, saved,
                   nreq, payloadRuns, recognizedDone>>

\* The caller takes the result; the I/O manager frees the request and the
\* dispatch routine's frame is gone.
Retire(u) ==
    /\ Running /\ pc[u] = "returned"
    /\ irp' = [irp EXCEPT ![u] = NoIrp]
    /\ req' = [req EXCEPT ![u] = NoReq]
    /\ control_code' = [control_code EXCEPT ![u] = CtlCode(0, 0)]
    /\ saved' = [saved EXCEPT ![u] = 0]
    /\ pc' = [pc EXCEPT ![u] = "idle"]
    /\ UNCHANGED <<lifecycleVars, envVars, cr4, intf, nreq, payloadRuns,
                   recognizedDone>>

(* ---------------------------- driver_ioctl ---------------------------- *)

\* assert!((*irp).CurrentLocation <= (*irp).StackCount + 1)
StackLocationValid(i) == i.CurrentLocation <= i.StackCount + 1

\* Variant: only the device-type half of the control code is compared.
RecognizedByDeviceType(code) == code[1] = DEVICE_TYPE

\* control_code == IOCTL_RUN_PAYLOAD
Recognized(code) == code = IOCTL_RUN_PAYLOAD

\* IoGetCurrentIrpStackLocation(irp), the read of IoControlCode and the branch
\* on it; on the recognized code *SystemBuffer is read as the payload pointer.
IoctlReadCode(u) ==
    /\ Running /\ pc[u] = "io_stack"
    /\ IF Asserted(StackLocationValid(irp[u]))
       THEN /\ control_code' = [control_code EXCEPT ![u] = irp[u].IoControlCode]
            /\ req' = [req EXCEPT ![u].bufferRead =
                                     Recognized(irp[u].IoControlCode)]
            /\ pc' = [pc EXCEPT ![u] =
                        IF Recognized(irp[u].IoControlCode)
                        THEN "cli" ELSE "io_status"]
       ELSE /\ pc' = [pc EXCEPT ![u] = "panic"]
            /\ UNCHANGED <<control_code, req>>
    /\ UNCHANGED <<lifecycleVars, envVars, cr4, intf, irp, saved, nreq,
                   payloadRuns, recognizedDone>>

(* ----------------- run_payload, disable_smep, restore_smep ------------ *)

\* Variant: disable_smep writes CR4 back without masking the bit out.
ClearedValueKept(value) == value

\* The value disable_smep writes to CR4: cr4 & !CR4_SMEP.
ClearedValue(value) == AndNot(value, CR4_SMEP)

\* Variant: disable_smep returns the value it wrote instead of the one it read.
SnapshotAfterClear(value) == ClearedValue(value)

\* The value disable_smep returns to run_payload: the CR4 it read.
SnapshotValue(value) == value

\* Variant: restore_smep turns SMEP on again instead of writing the snapshot.
RestoredSmepOn(snapshot) == OrBit(snapshot, CR4_SMEP)

\* The value restore_smep writes to CR4: its argument.
RestoredValue(snapshot) == snapshot

Step(u, name) == [req EXCEPT ![u].trace = Append(@, name)]

\* Variant: disable_smep without the cli.
CliSkipped(u) ==
    /\ Running /\ pc[u] = "cli"
    /\ req' = Step(u, "cli")
    /\ pc' = [pc EXCEPT ![u] = "read_cr4"]
    /\ UNCHANGED <<lifecycleVars, envVars, cr4, intf, irp, control_code, saved,
                   nreq, payloadRuns, recognizedDone>>

\* disable_smep: asm!("cli")
Cli(u) ==
    /\ Running /\ pc[u] = "cli"
    /\ intf' = [intf EXCEPT ![u] = FALSE]
    /\ req' = Step(u, "cli")
    /\ pc' = [pc EXCEPT ![u] = "read_cr4"]
    /\ UNCHANGED <<lifecycleVars, envVars, cr4, irp, control_code, saved, nreq,
                   payloadRuns, recognizedDone>>

\* disable_smep: let cr4 = cr4()
ReadCr4(u) ==
    /\ Running /\ pc[u] = "read_cr4"
    /\ saved' = [saved EXCEPT ![u] = cr4[Reg(u)]]
    /\ req' = Step(u, "read_cr4")
    /\ pc' = [pc EXCEPT ![u] = "clear_smep"]
    /\ UNCHANGED <<lifecycleVars, envVars, cr4, intf, irp, control_code, nreq,
                   payloadRuns, recognizedDone>>

\* disable_smep: write_cr4(cr4 & !CR4_SMEP), and the return of cr4.
ClearSmep(u) ==
    /\ Running /\ pc[u] = "clear_smep"
    /\ cr4' = [cr4 EXCEPT ![Reg(u)] = ClearedValue(saved[u])]
    /\ saved' = [saved EXCEPT ![u] = SnapshotValue(@)]
    /\ req' = Step(u, "write_cr4")
    /\ pc' = [pc EXCEPT ![u] = "call"]
    /\ UNCHANGED <<lifecycleVars, envVars, intf, irp, control_code, nreq,
                   payloadRuns, recognizedDone>>

\* What the payload's own code does to the CR4 it runs on.
PayloadCr4(payload, value) ==
    CASE payload.cr4op = "set_smep" -> OrBit(value, CR4_SMEP)
      [] payload.cr4op = "clear_smep" -> AndNot(value, CR4_SMEP)
      [] payload.cr4op = "flip_smap" ->
            IF HasBit(value, CR4_SMAP) THEN AndNot(value, CR4_SMAP)
            ELSE OrBit(value, CR4_SMAP)
      [] OTHER -> value

\* What the payload's own code does to the interrupt flag of its unit.
PayloadIf(payload, flag) ==
    CASE payload.ifop = "sti" -> TRUE
      [] payload.ifop = "cli" -> FALSE
      [] OTHER -> flag

\* run_payload: payload(MmGetSystemRoutineAddress). The payload is entered and
\* runs its own code, whatever that is.
CallPayload(u) ==
    /\ Running /\ pc[u] = "call"
    /\ \E payload \in Payloads :
        /\ cr4' = [cr4 EXCEPT ![Reg(u)] = PayloadCr4(payload, @)]
        /\ intf' = [intf EXCEPT ![u] = PayloadIf(payload, @)]
        /\ req' = [req EXCEPT ![u].invoked = @ + 1,
                              ![u].resolver = MmGetSystemRoutineAddress,
                              ![u].payload = payload,
                              ![u].trace = Append(@, "payload")]
    /\ payloadRuns' = payloadRuns + 1
    /\ pc' = [pc EXCEPT ![u] = "payload"]
    /\ UNCHANGED <<lifecycleVars, envVars, irp, control_code, saved, nreq,
                   recognizedDone>>

\* Variant: run_payload calls the payload a second time after it returns.
PayloadReturnCallsAgain(u) ==
    /\ Running /\ pc[u] = "payload"
    /\ req[u].payload.returns
    /\ pc' = [pc EXCEPT ![u] = IF req[u].invoked < 2 THEN "call" ELSE "restore"]
    /\ UNCHANGED <<lifecycleVars, envVars, cr4, intf, irp, control_code, saved,
                   req, nreq, payloadRuns, recognizedDone>>

\* The payload returns to run_payload, if it ever does.
PayloadReturn(u) ==
    /\ Running /\ pc[u] = "payload"
    /\ req[u].payload.returns
    /\ pc' = [pc EXCEPT ![u] = "restore"]
    /\ UNCHANGED <<lifecycleVars, envVars, cr4, intf, irp, control_code, saved,
                   req, nreq, payloadRuns, recognizedDone>>

\* Variant: restore_smep puts back only the SMEP bit of the snapshot.
RestoreSmepBitOnly(u) ==
    /\ Running /\ pc[u] = "restore"
    /\ cr4' = [cr4 EXCEPT ![Reg(u)] =
                  IF HasBit(saved[u], CR4_SMEP) THEN OrBit(@, CR4_SMEP)
                  ELSE AndNot(@, CR4_SMEP)]
    /\ req' = Step(u, "write_cr4")
    /\ pc' = [pc EXCEPT ![u] = "sti"]
    /\ UNCHANGED <<lifecycleVars, envVars, intf, irp, control_code, saved, nreq,
                   payloadRuns, recognizedDone>>

\* restore_smep: write_cr4(cr4)
RestoreCr4(u) ==
    /\ Running /\ pc[u] = "restore"
    /\ cr4' = [cr4 EXCEPT ![Reg(u)] = RestoredValue(saved[u])]
    /\ req' = Step(u, "write_cr4")
    /\ pc' = [pc EXCEPT ![u] = "sti"]
    /\ UNCHANGED <<lifecycleVars, envVars, intf, irp, control_code, saved, nreq,
                   payloadRuns, recognizedDone>>

\* Variant: restore_smep without the sti.
StiSkipped(u) ==
    /\ Running /\ pc[u] = "sti"
    /\ req' = Step(u, "sti")
    /\ pc' = [pc EXCEPT ![u] = "io_status"]
    /\ UNCHANGED <<lifecycleVars, envVars, cr4, intf, irp, control_code, saved,
                   nreq, payloadRuns, recognizedDone>>

\* restore_smep: asm!("sti")
Sti(u) ==
    /\ Running /\ pc[u] = "sti"
    /\ intf' = [intf EXCEPT ![u] = TRUE]
    /\ req' = Step(u, "sti")
    /\ pc' = [pc EXCEPT ![u] = "io_status"]
    /\ UNCHANGED <<lifecycleVars, envVars, cr4, irp, control_code, saved, nreq,
                   payloadRuns, recognizedDone>>

(* ------------------------ driver_ioctl, the tail ---------------------- *)

\* Variant: the status store is missing before the completion call.
IoctlStatusSkipped(u) ==
    /\ Running /\ pc[u] = "io_status"
    /\ pc' = [pc EXCEPT ![u] = "io_complete"]
    /\ UNCHANGED <<lifecycleVars, envVars, cr4, intf, irp, control_code, saved,
                   req, nreq, payloadRuns, recognizedDone>>

\* Variant: driver_ioctl also clears IoStatus.Information, as driver_open_close
\* does.
IoctlSetStatusAndInformation(u) ==
    /\ Running /\ pc[u] = "io_status"
    /\ irp' = [irp EXCEPT ![u].Status = STATUS_SUCCESS, ![u].Information = 0]
    /\ pc' = [pc EXCEPT ![u] = "io_complete"]
    /\ UNCHANGED <<lifecycleVars, envVars, cr4, intf, control_code, saved, req,
                   nreq, payloadRuns, recognizedDone>>

\* (*irp).IoStatus.Status = STATUS_SUCCESS
IoctlSetStatus(u) ==
    /\ Running /\ pc[u] = "io_status"
    /\ irp' = [irp EXCEPT ![u].Status = STATUS_SUCCESS]
    /\ pc' = [pc EXCEPT ![u] = "io_complete"]
    /\ UNCHANGED <<lifecycleVars, envVars, cr4, intf, control_code, saved, req,
                   nreq, payloadRuns, recognizedDone>>

\* IofCompleteRequest(irp, IO_NO_INCREMENT)
IoctlComplete(u) ==
    /\ Running /\ pc[u] = "io_complete"
    /\ IofCompleteRequest(u)
    /\ pc' = [pc EXCEPT ![u] = "io_return"]
    /\ UNCHANGED <<lifecycleVars, envVars, cr4, intf, control_code, saved, nreq,
                   payloadRuns, recognizedDone>>

\* driver_ioctl returns STATUS_SUCCESS.
IoctlReturn(u) ==
    /\ Running /\ pc[u] = "io_return"
    /\ req' = [req EXCEPT ![u].ret = Append(@, STATUS_SUCCESS)]
    /\ recognizedDone' = IF Recognized(control_code[u])
                         THEN recognizedDone + 1 ELSE recognizedDone
    /\ pc' = [pc EXCEPT ![u] = "returned"]
    /\ UNCHANGED <<lifecycleVars, envVars, cr4, intf, irp, control_code, saved,
                   nreq, payloadRuns>>

(* --------------------------- specification ---------------------------- *)

Next ==
    \/ EntryDebugBreak
    \/ EntryCreateDevice
    \/ EntryCreateLink
    \/ EntryRegister
    \/ \E t \in Threads : PanicLog(t)
    \/ \E t \in Threads : PanicDebugBreak(t)
    \/ \E t \in Threads : PanicBugCheck(t)
    \/ UnloadDeleteLink
    \/ UnloadDeleteDevice
    \/ \E u \in Units : Dispatch(u)
    \/ \E u \in Units : OpenCloseSetStatus(u)
    \/ \E u \in Units : OpenCloseComplete(u)
    \/ \E u \in Units : OpenCloseReturn(u)
    \/ \E u \in Units : IoctlReadCode(u)
    \/ \E u \in Units : Cli(u)
    \/ \E u \in Units : ReadCr4(u)
    \/ \E u \in Units : ClearSmep(u)
    \/ \E u \in Units : CallPayload(u)
    \/ \E u \in Units : PayloadReturn(u)
    \/ \E u \in Units : RestoreCr4(u)
    \/ \E u \in Units : Sti(u)
    \/ \E u \in Units : IoctlSetStatus(u)
    \/ \E u \in Units : IoctlComplete(u)
    \/ \E u \in Units : IoctlReturn(u)
    \/ \E u \in Units : Retire(u)

\* Each unit has its own CR4, as on x86-64.
InitPerUnit == Init /\ ~sharedCr4 /\ ~faultyCallers
Spec == InitPerUnit /\ [][Next]_vars

\* CR4 taken as one state shared by the units.
InitShared == Init /\ sharedCr4 /\ ~faultyCallers
SpecShared == InitShared /\ [][Next]_vars

\* Per-unit CR4, with callers that may pass a request whose stack location
\* fails the check in IoGetCurrentIrpStackLocation.
InitFaulty == Init /\ ~sharedCr4 /\ faultyCallers
SpecFaulty == InitFaulty /\ [][Next]_vars

\* The driver's own steps on unit u, and the return of a payload that returns.
\* A dispatch routine is straight-line code on a running processor: once
\* entered it keeps executing.
UnitProgress(u) ==
    \/ OpenCloseSetStatus(u) \/ OpenCloseComplete(u) \/ OpenCloseReturn(u)
    \/ IoctlReadCode(u) \/ Cli(u) \/ ReadCr4(u) \/ ClearSmep(u)
    \/ CallPayload(u) \/ PayloadReturn(u) \/ RestoreCr4(u) \/ Sti(u)
    \/ IoctlSetStatus(u) \/ IoctlComplete(u) \/ IoctlReturn(u)

SpecFair == Spec /\ \A u \in Units : WF_vars(UnitProgress(u))

(* ---------------------------- properties ------------------------------ *)

\* A device-control request carrying the recognized selector.
IsRunPayload(u) ==
    /\ irp[u].Major = IRP_MJ_DEVICE_CONTROL
    /\ irp[u].IoControlCode = IOCTL_RUN_PAYLOAD

\* A device-control request carrying any other selector.
IsOtherIoctl(u) ==
    /\ irp[u].Major = IRP_MJ_DEVICE_CONTROL
    /\ irp[u].IoControlCode # IOCTL_RUN_PAYLOAD

IsOpenClose(u) == irp[u].Major \in {IRP_MJ_CREATE, IRP_MJ_CLOSE}

\* The payload wrote the protection bit itself.
PayloadWroteSmep(u) == req[u].payload.cr4op \in {"set_smep", "clear_smep"}

\* The steps of the privileged window, in the order run_payload takes them.
WindowOrder == <<"cli", "read_cr4", "write_cr4", "payload", "write_cr4", "sti">>

IsPrefix(a, b) == Len(a) <= Len(b) /\ a = SubSeq(b, 1, Len(a))

\* C1: on one execution unit, a recognized device-control request whose payload
\* returns without writing the protection bit returns with CR4 equal to the
\* value it held when the request was dispatched, in all its bits.
C1_RoundTrip ==
    \A u \in Units :
        (pc[u] = "returned" /\ IsRunPayload(u) /\ ~PayloadWroteSmep(u))
            => cr4[Reg(u)] = req[u].cr4

\* C1 happens: a request has returned, SMEP was on at dispatch, the payload
\* changed another bit, and CR4 is back at its value.
C1_Witness ==
    \E u \in Units :
        /\ pc[u] = "returned" /\ IsRunPayload(u)
        /\ req[u].payload.cr4op = "flip_smap"
        /\ HasBit(req[u].cr4, CR4_SMEP)
        /\ cr4[Reg(u)] = req[u].cr4

\* Units whose request has entered the payload and not yet returned to the
\* caller.
PastCall(u) ==
    pc[u] \in {"payload", "restore", "sti", "io_status", "io_complete",
               "io_return"} /\ IsRunPayload(u)

\* C2: a recognized device-control request invokes the payload exactly once,
\* with MmGetSystemRoutineAddress as its argument, so the number of payload runs
\* is the number of such requests that have returned plus those inside or past
\* the call.
C2_SingleInvocation ==
    /\ \A u \in Units :
        /\ req[u].invoked <= 1
        /\ (pc[u] = "returned" /\ IsRunPayload(u)) => req[u].invoked = 1
        /\ req[u].invoked = 1 => req[u].resolver = MmGetSystemRoutineAddress
    /\ payloadRuns = recognizedDone + Cardinality({u \in Units : PastCall(u)})

\* C2 happens: two recognized requests have returned and the payload ran twice.
C2_Witness == recognizedDone = 2 /\ payloadRuns = 2

\* C3: a device-control request with any other selector never invokes a
\* payload, never reads the input buffer, leaves CR4 and the interrupt flag as
\* they were, and is completed with STATUS_SUCCESS, which is also returned.
C3_UnrecognizedNoOp ==
    \A u \in Units :
        IsOtherIoctl(u) =>
            /\ req[u].invoked = 0
            /\ ~req[u].bufferRead
            /\ req[u].trace = <<>>
            /\ cr4[Reg(u)] = req[u].cr4
            /\ intf[u] = req[u].intf
            /\ pc[u] = "returned" =>
                /\ irp[u].Status = STATUS_SUCCESS
                /\ irp[u].Completed = 1
                /\ req[u].statusAtCompletion = <<STATUS_SUCCESS>>
                /\ req[u].ret = <<STATUS_SUCCESS>>

\* C3 happens: a request whose selector has the driver's device type and
\* another function code has returned.
C3_Witness ==
    \E u \in Units :
        /\ pc[u] = "returned" /\ IsOtherIoctl(u)
        /\ irp[u].IoControlCode[1] = DEVICE_TYPE
        /\ req[u].ret = <<STATUS_SUCCESS>>

\* The DRIVER_OBJECT as driver_entry leaves it.
LoadedDriver ==
    [DriverUnload |-> "driver_unload",
     MajorFunction |-> [m \in MajorCodes |->
         IF m = IRP_MJ_DEVICE_CONTROL THEN "driver_ioctl"
         ELSE "driver_open_close"],
     DeviceObject |-> DEVICE_NAME]

\* C4: every OPEN and CLOSE request, whatever came before it, is completed once
\* with STATUS_SUCCESS and Information = 0 and returns STATUS_SUCCESS, and while
\* it is handled the driver object, CR4 and the interrupt flag stay as they
\* were.
C4_OpenClose ==
    \A u \in Units :
        IsOpenClose(u) =>
            /\ driver = LoadedDriver
            /\ cr4[Reg(u)] = req[u].cr4
            /\ intf[u] = req[u].intf
            /\ pc[u] = "returned" =>
                /\ irp[u].Status = STATUS_SUCCESS
                /\ irp[u].Information = 0
                /\ irp[u].Completed = 1
                /\ req[u].statusAtCompletion = <<STATUS_SUCCESS>>
                /\ req[u].ret = <<STATUS_SUCCESS>>

\* C4 happens: a CLOSE has returned as the second request of the run, its byte
\* count having been non-zero at dispatch.
C4_Witness ==
    \E u \in Units :
        /\ pc[u] = "returned" /\ irp[u].Major = IRP_MJ_CLOSE
        /\ nreq = 2
        /\ req[u].information # 0
        /\ irp[u].Information = 0

LinkExists == \E l \in symlinks : l.name = LINK_NAME
LinkResolves ==
    \E l \in symlinks :
        l.name = LINK_NAME /\ l.target = DEVICE_NAME /\ l.target \in devices
DeviceExists == DEVICE_NAME \in devices

\* C5: between the successful return of driver_entry and the start of
\* driver_unload the device exists and the link resolves to it; once
\* driver_unload has returned neither the link nor the device exists.
C5_LoadUnloadSymmetry ==
    /\ lpc = "loaded" => DeviceExists /\ LinkExists /\ LinkResolves
    /\ lpc = "unloaded" => ~LinkExists /\ ~DeviceExists

\* C6: the link never dangles: in no state does the symbolic link exist while
\* the device object does not.
C6_LinkNeverDangles == LinkExists => DeviceExists

\* C7 as stated: whenever the driver has cleared the protection bit and not yet
\* restored it, or the payload is running, interrupts are disabled on the unit.
C7_InterruptsOffInWindow ==
    \A u \in Units : pc[u] \in {"call", "payload", "restore"} => ~intf[u]

\* C7 as amended: the window's steps run in the order cli, read CR4, write CR4
\* with SMEP cleared, payload, write the saved CR4, sti; and whenever the
\* protection bit is cleared and not yet restored, or the payload is running,
\* interrupts are disabled on the unit unless the payload itself enabled them.
C7_WindowOrder ==
    \A u \in Units :
        /\ IsPrefix(req[u].trace, WindowOrder)
        /\ (pc[u] = "returned" /\ IsRunPayload(u)) => req[u].trace = WindowOrder
        /\ pc[u] = "call" => ~intf[u]
        /\ (pc[u] \in {"payload", "restore"} /\ req[u].payload.ifop # "sti")
               => ~intf[u]

\* C7 happens: a payload that leaves the interrupt flag alone is running with
\* SMEP cleared by the driver and interrupts off.
C7_Witness ==
    \E u \in Units :
        /\ pc[u] = "payload"
        /\ req[u].payload.ifop = "none"
        /\ HasBit(saved[u], CR4_SMEP) /\ ~HasBit(cr4[Reg(u)], CR4_SMEP)
        /\ ~intf[u]

\* The protection bit is off in the shared register and in every snapshot a
\* unit still has to write back.
SmepLost ==
    /\ ~HasBit(cr4[1], CR4_SMEP)
    /\ \A u \in Units :
        pc[u] \in {"clear_smep", "call", "payload", "restore"}
            => ~HasBit(saved[u], CR4_SMEP)

\* A payload turns the protection bit on in this step.
PayloadSetsSmep ==
    \E u \in Units :
        /\ pc[u] = "call" /\ pc'[u] = "payload"
        /\ req'[u].payload.cr4op = "set_smep"

\* C8: with one CR4 shared by the two units, once the protection bit is off in
\* the register and in every pending snapshot it stays off for good: no step of
\* the driver turns it on again (only a payload writing the bit could). The
\* witness is the race that leads there from a boot value with the bit on.
C8_ClearedForGood == [][(SmepLost /\ ~PayloadSetsSmep) => SmepLost']_vars

\* C8 happens: SMEP was on at boot, two concurrent recognized requests, the
\* only requests so far and with payloads that left CR4 alone, have both
\* returned, and SMEP is off.
C8_Witness ==
    /\ sharedCr4 /\ HasBit(bootCr4, CR4_SMEP)
    /\ nreq = 2
    /\ \A u \in Units :
        /\ pc[u] = "returned" /\ IsRunPayload(u)
        /\ req[u].payload.cr4op = "none"
    /\ SmepLost

CreationFailed == apiFailed \cap {"IoCreateDevice", "IoCreateSymbolicLink"} # {}

SuccessLogged ==
    \E i \in 1..Len(dbglog) : dbglog[i] = "Loaded the driver successfully"

\* C9: once IoCreateDevice or IoCreateSymbolicLink has returned a failure,
\* driver_entry never returns a status, the unload routine and the OPEN, CLOSE
\* and DEVICE_CONTROL routines are never registered, and the success line is
\* never logged.
C9_FailedLoadInstallsNothing ==
    CreationFailed =>
        /\ entryStatus = <<>>
        /\ driver.DriverUnload = "none"
        /\ driver.MajorFunction = NoHandlers
        /\ ~SuccessLogged
        /\ lpc \in {"panic", "panic_break", "panic_bugcheck", "halted"}

\* C9 happens: the device was created, the link was not, and the system has
\* halted.
C9_Witness ==
    /\ "IoCreateSymbolicLink" \in apiFailed
    /\ DeviceExists
    /\ lpc = "halted"

\* C10: a recognized request whose payload has returned has interrupts enabled
\* from the end of restore_smep on, whatever the payload did to the flag, and
\* CR4 holds the snapshot again before the sti.
C10_InterruptsReenabled ==
    \A u \in Units :
        /\ (pc[u] \in {"io_status", "io_complete", "io_return", "returned"}
                /\ IsRunPayload(u))
               => /\ intf[u]
                  /\ SubSeq(req[u].trace, 5, 6) = <<"write_cr4", "sti">>
        /\ pc[u] = "sti" => cr4[Reg(u)] = saved[u]

\* C10 happens: the payload executed cli itself and the request has returned
\* with interrupts enabled.
C10_Witness ==
    \E u \in Units :
        /\ pc[u] = "returned" /\ IsRunPayload(u)
        /\ req[u].payload.ifop = "cli"
        /\ intf[u]

\* What holds of a request's completion in every state.
CompletionSafe(u) ==
    /\ irp[u].Completed <= 1
    /\ Len(req[u].ret) <= 1
    /\ req[u].ret # <<>> => irp[u].Completed = 1
    /\ irp[u].Completed = 1 =>
        /\ req[u].statusAtCompletion = <<STATUS_SUCCESS>>
        /\ IsRunPayload(u) =>
            /\ req[u].trace = WindowOrder
            /\ req[u].payload.returns
            /\ intf[u]

\* Once completed, the request is left alone until the I/O manager frees it.
UntouchedAfterCompletion(u) ==
    (irp[u].Completed = 1 /\ pc'[u] # "idle") => irp'[u] = irp[u]

\* C11: every request is completed exactly once before its handler returns,
\* with the status stored before the completion call and the request not
\* touched after it; a recognized device-control request is completed only
\* after the payload has returned, CR4 was written back and interrupts were
\* enabled; and once its payload returns the request is eventually completed.
C11_CompletedOnce ==
    /\ [](\A u \in Units : CompletionSafe(u))
    /\ [][\A u \in Units : UntouchedAfterCompletion(u)]_vars
    /\ \A u \in Units :
        (pc[u] = "payload" /\ req[u].payload.returns) ~> (irp[u].Completed = 1)

\* C11 happens: a recognized request whose payload returned has been completed
\* once and its handler has returned.
C11_Witness ==
    \E u \in Units :
        /\ pc[u] = "returned" /\ IsRunPayload(u)
        /\ irp[u].Completed = 1
        /\ req[u].ret = <<STATUS_SUCCESS>>

\* The payload of u's request was entered and never returns.
Hung(u) == pc[u] = "payload" /\ ~req[u].payload.returns

\* C12: when the payload never returns, the unit stays inside it for good with
\* the protection bit cleared and interrupts disabled, the saved CR4 is never
\* written back and the request is never completed or returned.
C12_NoRecovery ==
    /\ [](\A u \in Units :
            Hung(u) =>
                /\ ~HasBit(cr4[Reg(u)], CR4_SMEP)
                /\ ~intf[u]
                /\ req[u].trace = SubSeq(WindowOrder, 1, 4)
                /\ irp[u].Completed = 0
                /\ req[u].ret = <<>>)
    /\ [][\A u \in Units : Hung(u) => Hung(u)']_vars

\* C12 happens: SMEP was on, one unit is stuck in a payload that never returns,
\* and the other unit has since handled a request to its end.
C12_Witness ==
    \E u, v \in Units :
        /\ Hung(u) /\ HasBit(saved[u], CR4_SMEP)
        /\ pc[v] = "returned"

\* Thread t has panicked: it is in handle_panic, or was when the system halted.
Panicking(t) ==
    \/ At(t, "panic") \/ At(t, "panic_break")
    \/ At(t, "panic_bugcheck") \/ At(t, "halted")

\* Thread t has gone past an assertion whose condition was false.
AssertFailedBy(t) ==
    IF t = 0
    THEN \/ "IoCreateDevice" \in apiFailed /\ lpc # "create_device"
         \/ "IoCreateSymbolicLink" \in apiFailed /\ lpc # "create_link"
    ELSE /\ irp[t].Major = IRP_MJ_DEVICE_CONTROL
         /\ irp[t].CurrentLocation > irp[t].StackCount + 1
         /\ pc[t] \notin {"idle", "io_stack"}

\* C13: a failed assert (device creation, link creation, IRP stack location)
\* puts the thread in handle_panic, which logs the fault and then halts the
\* system with stop code 0xE2; a panicking thread never leaves handle_panic,
\* never returns a status to its caller and never completes the request.
C13_NoSilentFault ==
    /\ [](\A t \in Threads : AssertFailedBy(t) => Panicking(t))
    /\ [](\A t \in Threads :
            Panicking(t) =>
                IF t = 0 THEN entryStatus = <<>>
                ELSE req[t].ret = <<>> /\ irp[t].Completed = 0)
    /\ [](\A t \in Threads :
            (At(t, "panic_break") \/ At(t, "panic_bugcheck") \/ At(t, "halted"))
                => \E i \in 1..Len(dbglog) : dbglog[i] = "panicked")
    /\ [](\A t \in Threads :
            At(t, "halted") => bugCheckCode = <<MANUALLY_INITIATED_CRASH>>)
    /\ [](~Running => \E t \in Threads : At(t, "halted"))
    /\ [][\A t \in Threads : Panicking(t) => Panicking(t)']_vars

\* C13 happens: a device-control handler failed the stack-location check and
\* the system halted with the stop code, the request left uncompleted.
C13_Witness ==
    \E u \in Units :
        /\ pc[u] = "halted" /\ AssertFailedBy(u)
        /\ bugCheckCode = <<MANUALLY_INITIATED_CRASH>>
        /\ irp[u].Completed = 0 /\ req[u].ret = <<>>

\* C14: once IoCreateSymbolicLink has failed during load, the device object is
\* not left registered without its symbolic link.
C14_NoOrphanDevice ==
    ("IoCreateSymbolicLink" \in apiFailed /\ lpc # "create_link")
        => ~(DeviceExists /\ ~LinkExists)

\* C15 as stated: the break is executed when no debugger is attached, and no
\* break is executed when one is.
C15_BreakWithoutDebugger ==
    /\ debugger => breaks = 0
    /\ (~debugger /\ lpc # "start") => breaks >= 1

\* C15 as amended: the check at the start of driver_entry comes before any
\* device is created and the one in handle_panic before the bugcheck; each
\* executes int3 exactly when a debugger is attached, and none when it is not.
C15_BreakWithDebugger ==
    /\ lpc = "start" => breaks = 0 /\ devices = {}
    /\ lpc \notin {"start", "panic_bugcheck", "halted"}
        => breaks = IF debugger THEN 1 ELSE 0
    /\ lpc \in {"panic_bugcheck", "halted"}
        => breaks = IF debugger THEN 2 ELSE 0
    /\ ~Running => lpc = "halted"

\* C15 happens: with a debugger attached the load faulted and the system
\* halted after the break on load and the break in handle_panic.
C15_Witness == debugger /\ lpc = "halted" /\ ~Running /\ breaks = 2

\* C16: on one execution unit, whatever the returning payload did to CR4
\* (SMEP or any other bit), CR4 after the recognized device-control request is
\* the value read at the start of the window, in all its bits; the snapshot
\* held during a call is the value read in that same call.
C16_WholeRegisterRestored ==
    \A u \in Units :
        /\ (pc[u] \in {"sti", "io_status", "io_complete", "io_return", "returned"}
              /\ IsRunPayload(u))
            => /\ cr4[Reg(u)] = saved[u]
               /\ cr4[Reg(u)] = req[u].cr4
        /\ pc[u] \in {"clear_smep", "call", "payload", "restore"}
            => saved[u] = req[u].cr4

\* C16 happens: SMEP was off at dispatch, the payload turned it on, and the
\* request returned with SMEP off again, as read at the start of the window.
C16_Witness ==
    \E u \in Units :
        /\ pc[u] = "returned" /\ IsRunPayload(u)
        /\ req[u].payload.cr4op = "set_smep"
        /\ ~HasBit(req[u].cr4, CR4_SMEP)
        /\ cr4[Reg(u)] = req[u].cr4

\* C17: driver_ioctl writes only IoStatus.Status: throughout a device-control
\* request, recognized or not, and so at its completion and after its return,
\* IoStatus.Information is the value the request was dispatched with.
C17_InformationUntouched ==
    \A u \in Units :
        (pc[u] # "idle" /\ irp[u].Major = IRP_MJ_DEVICE_CONTROL)
            => irp[u].Information = req[u].information

\* C17 happens: a recognized and an unrecognized device-control request have
\* both been completed and returned, each still carrying its nonzero byte count.
C17_Witness ==
    \E u, v \in Units :
        /\ pc[u] = "returned" /\ IsRunPayload(u) /\ irp[u].Completed = 1
        /\ pc[v] = "returned" /\ IsOtherIoctl(v) /\ irp[v].Completed = 1
        /\ irp[u].Information = req[u].information /\ irp[u].Information # 0
        /\ irp[v].Information = req[v].information /\ irp[v].Information # 0

====
